---- MODULE Spec2Model ----
(***************************************************************************)
(* redis-view: the namespace trie (populate), the tree renderer (plot,     *)
(* plotNode, mapKeys), the lookup (query) and the value formatter          *)
(* (prettyPrint, isBinary, bitset).                                        *)
(*                                                                         *)
(* A Go string or []byte is a sequence of bytes (0..255): "a:b" is         *)
(* <<97, 58, 98>>.  Redis type names and command names are only compared   *)
(* for equality and are kept as TLA+ strings.                              *)
(***************************************************************************)
EXTENDS Integers, Sequences, FiniteSets, TLC

VARIABLES
    pc,        \* where main is: "start", "keys", "plot", "done"; "format" in SpecFormat
    keySep,    \* global keySep
    onlyKeys,  \* global onlyKeys
    wrap,      \* global wrap
    db,        \* the store behind the connection: key -> [type, ttl]
    faults,    \* whether the connection may answer a command with an error
    pat,       \* how many patterns main's loop has gone through
    ingested,  \* the keys the KEYS replies have handed to populate so far
    tree,      \* *tree of main
    stack,     \* the activation records of plot, outermost first
    out,       \* the lines written to standard output, in order
    wire,      \* per call of query: its key, the commands sent, which of them failed
    input,     \* SpecFormat: the []byte under test
    result     \* SpecFormat: what the formatter function returned

vars == <<pc, keySep, onlyKeys, wrap, db, faults, pat, ingested, tree,
          stack, out, wire, input, result>>

-----------------------------------------------------------------------------
(* Bounds *)

MaxKeys == 3        \* keys held by the store of a fault-free run
MaxPatterns == 2    \* patterns on the command line
MaxBytes == 10      \* length of the two-valued byte strings given to the formatter

-----------------------------------------------------------------------------
(* Strings *)

\* ":" and "/", the separators tried for --sep (":" is the default)
Seps == { <<58>>, <<47>> }

\* s < t in Go's string order (bytewise lexicographic), as sort.Strings uses it
RECURSIVE StrLess(_, _)
StrLess(s, t) ==
    IF t = <<>> THEN FALSE
    ELSE IF s = <<>> THEN TRUE
    ELSE IF Head(s) # Head(t) THEN Head(s) < Head(t)
    ELSE StrLess(Tail(s), Tail(t))

\* strings.Index(s, sep) + 1, or 0 when sep does not occur in s
StrIndex(s, sep) ==
    LET hits == { i \in 1..(Len(s) - Len(sep) + 1) :
                    SubSeq(s, i, i + Len(sep) - 1) = sep }
    IN IF hits = {} THEN 0 ELSE CHOOSE i \in hits : \A j \in hits : i <= j

\* strings.Split(s, sep): the pieces between the occurrences of sep, the empty
\* ones included; an empty sep splits after every byte
RECURSIVE Split(_, _)
Split(s, sep) ==
    IF sep = <<>> THEN [i \in 1..Len(s) |-> <<s[i]>>]
    ELSE LET i == StrIndex(s, sep)
         IN IF i = 0 THEN <<s>>
            ELSE <<SubSeq(s, 1, i - 1)>> \o Split(SubSeq(s, i + Len(sep), Len(s)), sep)

\* strings.Fields-like splitting that drops the empty pieces
SplitNonEmpty(s, sep) == SelectSeq(Split(s, sep), LAMBDA p : p # <<>>)

\* the split populate performs on a key
keyParts(key, sep) == Split(key, sep)

-----------------------------------------------------------------------------
(* The trie *)

EmptyMap == [k \in {} |-> 0]

\* make(map[string]treeNode)[k] = v
Put(m, k, v) == [x \in DOMAIN m \cup {k} |-> IF x = k THEN v ELSE m[x]]

\* treeNode{value: v, children: make(map[string]treeNode)}
newNode(v) == [value |-> v, children |-> EmptyMap]

\* tree := &treeNode{value: "/", ...}
Root == newNode(<<47>>)

\* a descent that replaces the child it steps into by a fresh node
RECURSIVE descendFresh(_, _)
descendFresh(node, parts) ==
    IF parts = <<>> THEN node
    ELSE [node EXCEPT !.children =
            Put(node.children, Head(parts),
                descendFresh(newNode(Head(parts)), Tail(parts)))]

\* the inner loop of populate: from node, step into (creating when absent) the
\* child of each part in turn.  The maps are shared by every copy of a
\* treeNode, so an insertion below is seen from the root.
RECURSIVE descend(_, _)
descend(node, parts) ==
    IF parts = <<>> THEN node
    ELSE LET part == Head(parts)
             child == IF part \in DOMAIN node.children
                      THEN node.children[part]
                      ELSE newNode(part)
         IN [node EXCEPT !.children =
                Put(node.children, part, descend(child, Tail(parts)))]

RECURSIVE populate(_, _, _)
populate(t, keys, sep) ==
    IF keys = <<>> THEN t
    ELSE populate(descend(t, keyParts(Head(keys), sep)), Tail(keys), sep)

-----------------------------------------------------------------------------
(* The store and its replies *)

Types == {"string", "list", "set", "hash", "zset"}

\* the keys a fault-free store may hold:
\*   "", ":", "a", "b", "a:a", "a:b", "a/b", "a:a:b"
KeyUniverse ==
    { <<>>, <<58>>, <<97>>, <<98>>, <<97, 58, 97>>, <<97, 58, 98>>,
      <<97, 47, 98>>, <<97, 58, 97, 58, 98>> }

\* the keys of a store behind a faulty connection: "a", "a:b"
FaultyUniverse == { <<97>>, <<97, 58, 98>> }

Stores(universe, max, types, ttls) ==
    UNION { [K -> [type : types, ttl : ttls]] :
            K \in { S \in SUBSET universe : Cardinality(S) <= max } }

\* every list of distinct elements of S
RECURSIVE Lists(_)
Lists(S) ==
    {<<>>} \cup UNION { { <<k>> \o l : l \in Lists(S \ {k}) } : k \in S }

Range(s) == { s[i] : i \in DOMAIN s }

-----------------------------------------------------------------------------
(* main *)

Init ==
    /\ pc = "start"
    /\ keySep = <<58>>
    /\ onlyKeys = FALSE
    /\ wrap = FALSE
    /\ \/ /\ faults = FALSE
          /\ db \in Stores(KeyUniverse, MaxKeys, {"string"}, {-1})
       \/ /\ faults = TRUE
          /\ db \in Stores(FaultyUniverse, MaxKeys, Types, {-1, 7})
    /\ pat = 0
    /\ ingested = {}
    /\ tree = Root
    /\ stack = <<>>
    /\ out = <<>>
    /\ wire = <<>>
    /\ input = <<>>
    /\ result = <<>>

\* main up to the loop over the patterns: the options are read
Main ==
    /\ pc = "start"
    /\ \E sep \in Seps, ok \in BOOLEAN, w \in BOOLEAN :
          /\ keySep' = sep
          /\ onlyKeys' = ok
          /\ wrap' = w
    /\ tree' = Root
    /\ pc' = "keys"
    /\ UNCHANGED <<db, faults, pat, ingested, stack, out, wire, input, result>>

\* one turn of the loop over the patterns (there is at least one, "*" by
\* default): KEYS, then populate, or continue when KEYS failed
Keys ==
    /\ pc = "keys"
    /\ pat < MaxPatterns
    /\ \E failed \in {FALSE, faults}, keys \in Lists(DOMAIN db) :
          IF failed
          THEN UNCHANGED <<tree, ingested>>
          ELSE /\ tree' = populate(tree, keys, keySep)
               /\ ingested' = ingested \cup Range(keys)
    /\ pat' = pat + 1
    /\ UNCHANGED <<pc, keySep, onlyKeys, wrap, db, faults, stack, out, wire,
                   input, result>>

-----------------------------------------------------------------------------
(* The value formatter *)

\* whether isBinary counts byte b as visible
visible(b) ==
    \/ (32 <= b /\ b < 127)
    \/ b = 10               \* '\n'
    \/ b = 9                \* '\t'
    \/ b = 114              \* 'r'
    \/ b = 102              \* 'f'
    \/ b = 98               \* 'b'

\* the bytes of s that isBinary counts as invisible
invisibleCount(s) == Cardinality({ i \in DOMAIN s : ~visible(s[i]) })

\* float64(invisible)/float64(len(bytes)) >= 0.3.  The quotient is correctly
\* rounded and 0.3 is the double nearest to 3/10, so for every length below
\* 2^51 the comparison is that of the exact ratio with 3/10.
isBinary(bytes) ==
    IF Len(bytes) = 0 THEN FALSE
    ELSE 10 * invisibleCount(bytes) >= 3 * Len(bytes)

\* (char >> i) & 0x1
bit(char, i) == (char \div (2 ^ i)) % 2

\* a bitset that writes bit i of a byte at place i, not at place 7 - i
bitsetLsbFirst(bytes) ==
    [k \in 1..(8 * Len(bytes)) |->
        IF bit(bytes[((k - 1) \div 8) + 1], (k - 1) % 8) = 0 THEN 48 ELSE 49]

\* seq[index*8+(7-i)] = '0' or '1' by bit i of bytes[index]: place k (from 1) of
\* the result is bit 7 - ((k-1) mod 8) of byte (k-1) div 8
bitset(bytes) ==
    [k \in 1..(8 * Len(bytes)) |->
        IF bit(bytes[((k - 1) \div 8) + 1], 7 - ((k - 1) % 8)) = 0 THEN 48 ELSE 49]

\* the concatenation of a sequence of strings, sepr between them
RECURSIVE Join(_, _)
Join(strs, sepr) ==
    IF strs = <<>> THEN <<>>
    ELSE IF Len(strs) = 1 THEN strs[1]
    ELSE strs[1] \o sepr \o Join(Tail(strs), sepr)

\* a JSON string; the values of the model hold no byte that JSON escapes
quote(s) == <<34>> \o s \o <<34>>

\* json.Marshal and json.MarshalIndent of a []string or of a map[string]string
\* (given as its <<field, value>> pairs in key order, the order JSON writes);
\* a nil slice or map is written null
jsonItem(item, isMap, colon) ==
    IF isMap THEN quote(item[1]) \o colon \o quote(item[2]) ELSE quote(item)

jsonMarshal(val) ==
    LET isMap == val.kind = "map"
        items == [i \in DOMAIN val.items |-> jsonItem(val.items[i], isMap, <<58>>)]
    IN IF val.isNil THEN <<110, 117, 108, 108>>
       ELSE (IF isMap THEN <<123>> ELSE <<91>>) \o Join(items, <<44>>)
            \o (IF isMap THEN <<125>> ELSE <<93>>)

jsonMarshalIndent(val, prefix, indent) ==
    LET isMap == val.kind = "map"
        items == [i \in DOMAIN val.items |->
                    prefix \o indent \o jsonItem(val.items[i], isMap, <<58, 32>>)]
    IN (IF isMap THEN <<123>> ELSE <<91>>) \o <<10>> \o Join(items, <<44, 10>>)
       \o <<10>> \o prefix \o (IF isMap THEN <<125>> ELSE <<93>>)

\* val is the interface{} query returned: kind "nil" (no value), "string",
\* "list" ([]string) or "map" (map[string]string)
prettyPrint(val, prefix, wrapped, isLast) ==
    LET newPrefix == IF isLast THEN prefix ELSE prefix \o <<124>>
    IN CASE val.kind \in {"map", "list"} ->
                IF ~wrapped \/ Len(val.items) <= 1
                THEN jsonMarshal(val)
                ELSE jsonMarshalIndent(val, newPrefix, <<32, 32, 32>>)
         [] val.kind = "string" ->
                IF isBinary(val.str) THEN bitset(val.str) ELSE val.str
         [] OTHER -> <<>>

-----------------------------------------------------------------------------
(* The lookup *)

\* what the store answers to TYPE and TTL: "none" and -2 for a key it does
\* not hold
typeOf(key) == IF key \in DOMAIN db THEN db[key].type ELSE "none"
ttlOf(key) == IF key \in DOMAIN db THEN db[key].ttl ELSE -2

NoValue == [kind |-> "nil", str |-> <<>>, items |-> <<>>, isNil |-> TRUE]
StrValue(s) == [kind |-> "string", str |-> s, items |-> <<>>, isNil |-> FALSE]
ListValue(l) == [kind |-> "list", str |-> <<>>, items |-> l, isNil |-> FALSE]
MapValue(m) == [kind |-> "map", str |-> <<>>, items |-> m, isNil |-> FALSE]
NilList == [kind |-> "list", str |-> <<>>, items |-> <<>>, isNil |-> TRUE]
NilMap == [kind |-> "map", str |-> <<>>, items |-> <<>>, isNil |-> TRUE]

\* the value command query sends for a type, and what the store holds under a
\* key of that type: "hi", ["x","y"], ["x"], {"f":"v","g":"w"}, {"m":"1"}
valueCmd(rtype) ==
    CASE rtype = "string" -> "get"
      [] rtype = "list" -> "lrange"
      [] rtype = "set" -> "smembers"
      [] rtype = "hash" -> "hgetall"
      [] rtype = "zset" -> "zrange"

stored(rtype) ==
    CASE rtype = "string" -> StrValue(<<104, 105>>)
      [] rtype = "list" -> ListValue(<< <<120>>, <<121>> >>)
      [] rtype = "set" -> ListValue(<< <<120>> >>)
      [] rtype = "hash" -> MapValue(<< << <<102>>, <<118>> >>, << <<103>>, <<119>> >> >>)
      [] rtype = "zset" -> MapValue(<< << <<109>>, <<49>> >> >>)

\* what Str(), List() and Hash() hand back beside their error: the zero value
failedValue(rtype) ==
    CASE rtype = "string" -> StrValue(<<>>)
      [] rtype \in {"list", "set"} -> NilList
      [] rtype \in {"hash", "zset"} -> NilMap

\* a query that fetches the value also in only-keys mode
queryAlways(key, f) ==
    LET rtype == IF f.type THEN "" ELSE typeOf(key)
        ttl == IF f.ttl THEN 0 ELSE ttlOf(key)
    IN IF rtype \in Types
       THEN [rtype |-> rtype, ttl |-> ttl,
             val |-> IF f.val THEN failedValue(rtype) ELSE stored(rtype),
             cmds |-> <<"type", "ttl", valueCmd(rtype)>>,
             errs |-> <<f.type, f.ttl, f.val>>]
       ELSE [rtype |-> rtype, ttl |-> ttl, val |-> NoValue,
             cmds |-> <<"type", "ttl">>, errs |-> <<f.type, f.ttl>>]

\* query(key); f says which of the commands the connection fails.  A failed
\* reply's Str() is "" and its Int64() is 0, and the error is dropped.  cmds
\* are the commands sent and errs, beside them, which of them failed.
query(key, f) ==
    LET rtype == IF f.type THEN "" ELSE typeOf(key)
        ttl == IF f.ttl THEN 0 ELSE ttlOf(key)
    IN IF onlyKeys
       THEN [rtype |-> rtype, ttl |-> ttl, val |-> StrValue(<<>>),
             cmds |-> <<"type", "ttl">>, errs |-> <<f.type, f.ttl>>]
       ELSE IF rtype \in Types
       THEN [rtype |-> rtype, ttl |-> ttl,
             val |-> IF f.val THEN failedValue(rtype) ELSE stored(rtype),
             cmds |-> <<"type", "ttl", valueCmd(rtype)>>,
             errs |-> <<f.type, f.ttl, f.val>>]
       ELSE [rtype |-> rtype, ttl |-> ttl, val |-> NoValue,
             cmds |-> <<"type", "ttl">>, errs |-> <<f.type, f.ttl>>]

\* the failures a connection may produce within one call of query
FaultChoices ==
    IF faults THEN [type : BOOLEAN, ttl : BOOLEAN, val : BOOLEAN]
    ELSE { [type |-> FALSE, ttl |-> FALSE, val |-> FALSE] }

-----------------------------------------------------------------------------
(* The renderer *)

\* strconv.Itoa
RECURSIVE digits(_)
digits(n) == IF n < 10 THEN <<48 + n>> ELSE Append(digits(n \div 10), 48 + (n % 10))
Itoa(n) == IF n < 0 THEN <<45>> \o digits(-n) ELSE digits(n)

\* the UTF-8 bytes of the glyphs
LastBranch == <<226, 148, 148, 226, 148, 128, 226, 148, 128, 32>>    \* "└── "
MidBranch == <<226, 148, 156, 226, 148, 128, 226, 148, 128, 32>>     \* "├── "
LastLeading == <<32, 32, 32, 32>>                                    \* "    "
MidLeading == <<226, 148, 130, 32, 32, 32>>                          \* "│   "

\* sort.Strings, as an insertion sort: the result is the one ascending
\* arrangement whatever the algorithm
RECURSIVE insertSorted(_, _)
insertSorted(sorted, s) ==
    IF sorted = <<>> THEN <<s>>
    ELSE IF StrLess(s, Head(sorted)) THEN <<s>> \o sorted
    ELSE <<Head(sorted)>> \o insertSorted(Tail(sorted), s)

RECURSIVE sortStrings(_)
sortStrings(strs) ==
    IF strs = <<>> THEN <<>>
    ELSE insertSorted(sortStrings(Tail(strs)), Head(strs))

\* the orders in which a range over the map may hand out its keys
Iterations(m) == { l \in Lists(DOMAIN m) : Len(l) = Cardinality(DOMAIN m) }

\* mapKeys without its sort.Strings
mapKeysUnsorted(iteration) == iteration

\* mapKeys(m), for the order in which the range over m handed out the keys
mapKeys(iteration) == sortStrings(iteration)

\* newKey in plot
newKey(key, part) == IF key = <<>> THEN part ELSE key \o <<58>> \o part

\* newLeading with the two glyphs exchanged
newLeadingSwapped(leading, isLast) ==
    IF isLast THEN leading \o MidLeading ELSE leading \o LastLeading

\* newLeading in plot
newLeading(leading, isLast) ==
    IF isLast THEN leading \o LastLeading ELSE leading \o MidLeading

\* plotNode(node, key, leading, isLast): the line it prints and, for a leaf,
\* the commands its query sent.  Standard output is not a terminal: colorize
\* hands its argument back.
plotNode(node, key, leading, isLast, f) ==
    LET sep == IF isLast THEN LastBranch ELSE MidBranch
        leaf == DOMAIN node.children = {}
        q == query(key, f)
        sttl == IF q.ttl # -1 THEN Itoa(q.ttl) ELSE <<>>
    IN [line |-> [leading |-> leading, sep |-> sep, value |-> node.value,
                  leaf |-> leaf,
                  rtype |-> IF leaf THEN q.rtype ELSE "",
                  sttl |-> IF leaf THEN sttl ELSE <<>>,
                  val |-> IF leaf THEN prettyPrint(q.val, leading, wrap, isLast)
                          ELSE <<>>],
        sent |-> IF leaf
                 THEN << [key |-> key, cmds |-> q.cmds, errs |-> q.errs] >>
                 ELSE <<>>]

frame(node, key, leading, parts) ==
    [node |-> node, key |-> key, leading |-> leading, parts |-> parts, index |-> 0]

\* the loop over the patterns ends and main calls plot(*tree, "", "")
PlotCall ==
    /\ pc = "keys"
    /\ pat >= 1
    /\ \E it \in Iterations(tree.children) :
          stack' = << frame(tree, <<>>, <<>>, mapKeys(it)) >>
    /\ pc' = "plot"
    /\ pat' = 0          \* the loop over the patterns is left
    /\ UNCHANGED <<keySep, onlyKeys, wrap, db, faults, ingested, tree, out,
                   wire, input, result>>

\* one turn of plot's loop, up to and with the call of plot for the child
PlotStep ==
    /\ pc = "plot"
    /\ stack # <<>>
    /\ LET top == stack[Len(stack)]
       IN /\ top.index < Len(top.parts)
          /\ LET part == top.parts[top.index + 1]
                 child == top.node.children[part]
                 nk == newKey(top.key, part)
                 isLast == top.index = Len(top.parts) - 1
             IN \E f \in FaultChoices, it \in Iterations(child.children) :
                   LET p == plotNode(child, nk, top.leading, isLast, f)
                   IN /\ out' = Append(out, p.line)
                      /\ wire' = wire \o p.sent
                      /\ stack' = Append(
                            [stack EXCEPT ![Len(stack)].index = top.index + 1],
                            frame(child, nk, newLeading(top.leading, isLast),
                                  mapKeys(it)))
    /\ UNCHANGED <<pc, keySep, onlyKeys, wrap, db, faults, pat, ingested, tree,
                   input, result>>

\* plot returns: its loop is over
PlotReturn ==
    /\ pc = "plot"
    /\ stack # <<>>
    /\ stack[Len(stack)].index = Len(stack[Len(stack)].parts)
    /\ stack' = SubSeq(stack, 1, Len(stack) - 1)
    /\ pc' = IF Len(stack) = 1 THEN "done" ELSE "plot"
    /\ UNCHANGED <<keySep, onlyKeys, wrap, db, faults, pat, ingested, tree, out,
                   wire, input, result>>

-----------------------------------------------------------------------------
(* The formatter functions on their own *)

\* every single byte, and every string of up to MaxBytes bytes over NUL and "a"
ByteInputs ==
    { <<b>> : b \in 0..255 }
    \cup UNION { [1..n -> {0, 97}] : n \in 0..MaxBytes }

InitFormat ==
    /\ pc = "format"
    /\ input \in ByteInputs
    /\ result = [fn |-> "none", out |-> <<>>]
    /\ keySep = <<58>>
    /\ onlyKeys = FALSE
    /\ wrap = FALSE
    /\ db = EmptyMap
    /\ faults = FALSE
    /\ pat = 0
    /\ ingested = {}
    /\ tree = Root
    /\ stack = <<>>
    /\ out = <<>>
    /\ wire = <<>>

FormatFrame == <<keySep, onlyKeys, wrap, db, faults, pat, ingested, tree, stack,
                 out, wire, input>>

CallBitset ==
    /\ pc = "format"
    /\ pc' = "formatted"
    /\ result' = [fn |-> "bitset", out |-> bitset(input)]
    /\ UNCHANGED FormatFrame

CallIsBinary ==
    /\ pc = "format"
    /\ pc' = "formatted"
    /\ result' = [fn |-> "isBinary", out |-> isBinary(input)]
    /\ UNCHANGED FormatFrame

\* prettyPrint of a string value
CallPrettyPrint ==
    /\ pc = "format"
    /\ pc' = "formatted"
    /\ result' = [fn |-> "prettyPrint",
                  out |-> prettyPrint(StrValue(input), <<>>, wrap, TRUE)]
    /\ UNCHANGED FormatFrame

NextFormat == CallBitset \/ CallIsBinary \/ CallPrettyPrint

SpecFormat == InitFormat /\ [][NextFormat]_vars

Next == Main \/ Keys \/ PlotCall \/ PlotStep \/ PlotReturn

Spec == Init /\ [][Next]_vars

-----------------------------------------------------------------------------
(* What the properties speak of *)

\* the label paths, from below the root, of the nodes under node
RECURSIVE NodePaths(_)
NodePaths(node) ==
    UNION { {<<l>>} \cup { <<l>> \o p : p \in NodePaths(node.children[l]) } :
            l \in DOMAIN node.children }

RECURSIVE NodeAt(_, _)
NodeAt(node, path) ==
    IF path = <<>> THEN node ELSE NodeAt(node.children[Head(path)], Tail(path))

IsLeaf(node) == DOMAIN node.children = {}

\* label-based comparison of two tries
RECURSIVE LabelEqual(_, _)
LabelEqual(a, b) ==
    /\ DOMAIN a.children = DOMAIN b.children
    /\ \A l \in DOMAIN a.children : LabelEqual(a.children[l], b.children[l])

\* the number of (non-overlapping) occurrences of sep in s
RECURSIVE CountSep(_, _)
CountSep(s, sep) ==
    LET i == StrIndex(s, sep)
    IN IF i = 0 THEN 0 ELSE 1 + CountSep(SubSeq(s, i + Len(sep), Len(s)), sep)

\* the labels from below the root down to the node of the innermost plot
StackPath == [i \in 1..(Len(stack) - 1) |-> stack[i + 1].node.value]

\* the lines of the leaves, in order: the k-th belongs to the k-th query
LeafLines == SelectSeq(out, LAMBDA l : l.leaf)

\* the number of four-column units in a leading prefix
RECURSIVE Depth(_)
Depth(leading) ==
    IF leading = <<>> THEN 0
    ELSE IF Head(leading) = 32
    THEN 1 + Depth(SubSeq(leading, Len(LastLeading) + 1, Len(leading)))
    ELSE 1 + Depth(SubSeq(leading, Len(MidLeading) + 1, Len(leading)))

\* the line of the parent of line i: the nearest line above it one unit less
\* deep (0: the parent is the root)
Parent(i) ==
    LET up == { j \in 1..(i - 1) : Depth(out[j].leading) = Depth(out[i].leading) - 1 }
    IN IF up = {} THEN 0 ELSE CHOOSE j \in up : \A k \in up : k <= j

Siblings(i, j) ==
    /\ Depth(out[i].leading) = Depth(out[j].leading)
    /\ Parent(i) = Parent(j)

\* the labels of S, ascending
RECURSIVE Ascending(_)
Ascending(S) ==
    IF S = {} THEN <<>>
    ELSE LET least == CHOOSE s \in S : \A t \in S \ {s} : StrLess(s, t)
         IN <<least>> \o Ascending(S \ {least})

\* a depth-first pre-order listing of the nodes under node with the prefix the
\* ancestors give each of them
RECURSIVE Preorder(_, _)
PreorderFrom(node, leading, labels) ==
    LET F[k \in 0..Len(labels)] ==
          IF k = 0 THEN <<>>
          ELSE F[k - 1]
               \o << [leading |-> leading, value |-> labels[k]] >>
               \o Preorder(node.children[labels[k]],
                           leading \o (IF k = Len(labels) THEN <<32, 32, 32, 32>>
                                       ELSE <<226, 148, 130, 32, 32, 32>>))
    IN F[Len(labels)]
Preorder(node, leading) ==
    PreorderFrom(node, leading, Ascending(DOMAIN node.children))

Skeleton == [i \in DOMAIN out |-> [leading |-> out[i].leading, value |-> out[i].value]]

IsPrefix(s, t) == Len(s) <= Len(t) /\ SubSeq(t, 1, Len(s)) = s

\* every arrangement of the whole of S
Orderings(S) == { l \in Lists(S) : Len(l) = Cardinality(S) }

-----------------------------------------------------------------------------
(* Properties *)

\* C1: whatever the order in which the keys were ingested, the trie is equal,
\* label by label, to the one populate builds from an empty root with any
\* permutation of the same keys.
C1_OrderIndependent ==
    \A perm \in Orderings(ingested) :
        LabelEqual(tree, populate(Root, perm, keySep))

C1_Witness ==
    /\ pc = "keys"
    /\ Cardinality(ingested) >= 3
    /\ \E l \in DOMAIN tree.children : Cardinality(DOMAIN tree.children[l].children) >= 2

\* C2 as stated: no node has an empty label, and the node of every ingested key
\* lies at the depth of the number of its non-empty segments (so the empty key
\* and the separator alone add nothing).
C2_NonEmptySegmentsOnly ==
    /\ \A p \in NodePaths(tree) : \A i \in DOMAIN p : p[i] # <<>>
    /\ \A k \in ingested :
          LET segs == SplitNonEmpty(k, keySep)
          IN segs = <<>> \/ segs \in NodePaths(tree)

\* C2 as amended: populate creates a node for every segment, the empty ones
\* included: the node of an ingested key lies at depth (occurrences of the
\* separator in the key) + 1 and the labels on its path, joined with the
\* separator, give the key back; the empty key has a node with an empty label
\* below the root.  Every node lies on the path of an ingested key.
C2_EverySegment ==
    /\ \A k \in ingested :
          \E p \in NodePaths(tree) :
              /\ Len(p) = CountSep(k, keySep) + 1
              /\ Join(p, keySep) = k
    /\ \A p \in NodePaths(tree) :
          \E k \in ingested :
              \E q \in NodePaths(tree) :
                  /\ IsPrefix(p, q)
                  /\ Join(q, keySep) = k
                  /\ Len(q) = CountSep(k, keySep) + 1

C2_Witness ==
    /\ <<>> \in ingested
    /\ keySep \in ingested
    /\ <<>> \in DOMAIN tree.children
    /\ <<>> \in DOMAIN tree.children[<<>>].children

\* C3: a node is a leaf if and only if its path is an ingested key, and once
\* plot is over the lookup was made exactly once for every ingested key and
\* for nothing else.
C3_LeafIffKey ==
    /\ \A p \in NodePaths(tree) :
          IsLeaf(NodeAt(tree, p)) <=> Join(p, keySep) \in ingested
    /\ pc = "done" =>
          /\ { wire[i].key : i \in DOMAIN wire } = ingested
          /\ Len(wire) = Cardinality(ingested)

\* C4: the key handed to the lookup for a leaf is the labels on the path from
\* the root to the leaf joined with keySep, which is an ingested key.
C4_LookupKeyIsPath ==
    (pc = "plot" /\ Len(stack) >= 2 /\ IsLeaf(stack[Len(stack)].node)) =>
        /\ wire # <<>>
        /\ wire[Len(wire)].key = Join(StackPath, keySep)
        /\ wire[Len(wire)].key \in ingested

\* C5: among the lines of the children of one node, labels are strictly
\* ascending in byte order and every line but the last has the connector of a
\* middle child; once plot is over the last line of each group, the one with
\* the greatest label, has the connector of a last child.
C5_SiblingOrder ==
    /\ \A i, j \in DOMAIN out :
          (i < j /\ Siblings(i, j)) =>
              /\ StrLess(out[i].value, out[j].value)
              /\ out[i].sep = MidBranch
    /\ \A i \in DOMAIN out : out[i].sep \in {MidBranch, LastBranch}
    /\ pc = "done" =>
          \A i \in DOMAIN out :
              (\A j \in DOMAIN out : (i < j) => ~Siblings(i, j)) =>
                  out[i].sep = LastBranch

C5_Witness ==
    /\ pc = "done"
    /\ \E i, j, k, l \in DOMAIN out :
          /\ i < j /\ Siblings(i, j) /\ Depth(out[i].leading) = 1
          /\ k < l /\ Siblings(k, l) /\ Depth(out[k].leading) = 0
          /\ out[i].sep = MidBranch /\ out[j].sep = LastBranch
          /\ out[k].sep = MidBranch /\ out[l].sep = LastBranch

\* C6: bitset(b) is 8*len(b) characters, each '0' or '1', and every chunk of
\* eight, read most significant bit first, is the byte it came from.
C6_BitsetRoundTrip ==
    result.fn = "bitset" =>
        /\ Len(result.out) = 8 * Len(input)
        /\ \A k \in DOMAIN result.out : result.out[k] \in {48, 49}
        /\ \A n \in DOMAIN input :
              input[n] = (result.out[8 * n - 7] - 48) * 128
                       + (result.out[8 * n - 6] - 48) * 64
                       + (result.out[8 * n - 5] - 48) * 32
                       + (result.out[8 * n - 4] - 48) * 16
                       + (result.out[8 * n - 3] - 48) * 8
                       + (result.out[8 * n - 2] - 48) * 4
                       + (result.out[8 * n - 1] - 48) * 2
                       + (result.out[8 * n] - 48)

C6_Witness ==
    /\ input = <<255>>
    /\ result = [fn |-> "bitset", out |-> <<49, 49, 49, 49, 49, 49, 49, 49>>]

\* C7: isBinary is false for the empty input and otherwise true exactly when
\* at least 30% of the bytes are invisible, a byte being invisible when it is
\* none of printable ASCII, newline, tab, carriage return, form feed, backspace.
C7_IsBinaryByControlCodes ==
    result.fn = "isBinary" =>
        LET invisible ==
              { i \in DOMAIN input :
                    ~ \/ (32 <= input[i] /\ input[i] <= 126)
                      \/ input[i] \in {10, 9, 13, 12, 8} }
        IN result.out = (input # <<>> /\ 10 * Cardinality(invisible) >= 3 * Len(input))

\* C8 as stated: in only-keys mode every lookup sends type, then ttl, and
\* nothing else, and the value field is empty; otherwise it sends type, ttl and
\* exactly one value command, the one of the type returned.
C8_OneValueCommand ==
    /\ Len(wire) = Len(LeafLines)
    /\ \A k \in DOMAIN wire :
          IF onlyKeys
          THEN wire[k].cmds = <<"type", "ttl">> /\ LeafLines[k].val = <<>>
          ELSE /\ LeafLines[k].rtype \in Types
               /\ wire[k].cmds = <<"type", "ttl", valueCmd(LeafLines[k].rtype)>>

\* C8 as amended: in only-keys mode every lookup sends type, then ttl, and
\* nothing else, and the value field is empty; otherwise it sends type, then
\* ttl, then the value command of the type returned when that type is string,
\* list, set, hash or zset, and no value command for any other type returned
\* (none, or the empty type of a failed type command).
C8_ValueCommandByType ==
    /\ Len(wire) = Len(LeafLines)
    /\ \A k \in DOMAIN wire :
          IF onlyKeys
          THEN wire[k].cmds = <<"type", "ttl">> /\ LeafLines[k].val = <<>>
          ELSE IF LeafLines[k].rtype \in Types
          THEN wire[k].cmds = <<"type", "ttl", valueCmd(LeafLines[k].rtype)>>
          ELSE wire[k].cmds = <<"type", "ttl">>

C8_Witness ==
    /\ onlyKeys
    /\ pc = "done"
    /\ Len(wire) >= 2
    /\ \E k \in DOMAIN wire : LeafLines[k].rtype \in Types

\* C9: a failed lookup does not stop the walk (the lines stay those of the
\* pre-order listing of the whole trie), and the field a failed command was to
\* fill is blank in the leaf's line.
C9_FailedFieldsBlank ==
    /\ IsPrefix(Skeleton, Preorder(tree, <<>>))
    /\ pc = "done" => Skeleton = Preorder(tree, <<>>)
    /\ \A k \in DOMAIN wire :
          /\ wire[k].errs[1] => LeafLines[k].rtype = ""
          /\ wire[k].errs[2] => LeafLines[k].sttl = <<>>
          /\ (Len(wire[k].errs) = 3 /\ wire[k].errs[3]) => LeafLines[k].val = <<>>

\* C10: the lines are, in order, those of the depth-first pre-order listing of
\* the nodes below the root, one line a node, each with the prefix its
\* ancestors give it: four spaces for an ancestor that was a last child, the
\* bar and three spaces for any other.
C10_PreorderLines ==
    /\ pc \in {"start", "keys"} => out = <<>>
    /\ pc = "plot" => IsPrefix(Skeleton, Preorder(tree, <<>>))
    /\ pc = "done" =>
          /\ Skeleton = Preorder(tree, <<>>)
          /\ Len(out) = Cardinality(NodePaths(tree))

C10_Witness ==
    /\ pc = "done"
    /\ \E i, j \in DOMAIN out :
          /\ i < j
          /\ out[i].leading = MidLeading \o LastLeading
          /\ out[j].leading = <<>>
          /\ Len(out) = Cardinality(NodePaths(tree))

====
